---- MODULE Spec2Model ----
(***************************************************************************)
(* Verification model of the LogisticsBot control stack.                   *)
(*                                                                         *)
(*   Spec        RobotController (src/control/robot_controller.py) driving *)
(*               a motor driver under the operator's commands, with its    *)
(*               watchdog thread.                                          *)
(*   SpecAuto    AutoModeController (same file): its loop thread,          *)
(*               including smart_turn, interleaved with start(), stop(),   *)
(*               mode changes and the emergency stop.                      *)
(*   SpecSerial  ArduinoDriver (src/drivers/motor/arduino_driver.py):      *)
(*               connection handshake and motion commands over the serial  *)
(*               link to a simulated microcontroller.                      *)
(*   SpecDash    the dashboard routes of src/main.py that reach the        *)
(*               RobotController, each request eventually served.          *)
(*   SpecGpio    L298NDriver (src/drivers/motor/l298n_driver.py).          *)
(*   SpecCam     the shared camera (src/perception/camera_manager.py)      *)
(*               used by the video stream and the auto loop.               *)
(*   SpecLane    the auto loop's lane detection under configurations with  *)
(*               missing keys (src/perception/lane_detector.py).           *)
(*   SpecSpeed   the auto loop's base speed under a configured default,    *)
(*               with green-light and speed-limit signs.                   *)
(*   SpecImu     IMUSensorFusion._init_hardware                            *)
(*               (src/perception/imu_sensor_fusion.py).                    *)
(*   SpecTurn    RobotController.smart_turn's turn commands for any        *)
(*               requested speed.                                          *)
(*   SpecStream  the MJPEG generators of /video_feed clients over the      *)
(*               shared StreamingCameraManager.                            *)
(*                                                                         *)
(* Time is discrete.  last_command_age is the clock                        *)
(* time.time() - last_command_time; turn_elapsed is the clock              *)
(* time.time() - start_time of a running smart_turn, advanced by the       *)
(* loop's own sleep(0.01).  Durations are scaled to a few ticks.           *)
(***************************************************************************)
EXTENDS Integers, Sequences, FiniteSets, TLC

(* ------------------------------ bounds -------------------------------- *)

\* safety.timeout (default 5.0 s), in watchdog clock ticks
Timeout == 2
\* smart_turn's timeout parameter (default 5.0 s), in 10 ms loop iterations
TurnTimeout == 1
\* smart_turn's stuck limit (50 samples in the source), in loop iterations
StuckLimit == 1
\* cap on read_error_count, which the source lets grow without limit
ReadErrorCap == 9
\* recovery_max_scan_time / 0.05 (60 iterations in the source)
ScanSteps == 2
\* lane_lost_count saturates here (it only matters whether it is >= threshold)
LostCap == 5
\* number of commands the simulated serial link records
MaxTx == 3
MaxRx == 2
MaxFrames == 3
\* number of StreamingCameraManager instances the model lets be constructed
MaxCams == 2
\* number of camera sessions one manager may hold open at a time
MaxOpens == 2

(* ------------------------- program constants -------------------------- *)

MaxPwm == 255
MinTurnSpeed == 130
SmartTurnSpeed == 250
DefaultSpeed == 150
DefaultBaseSpeed == 100
SpeedLimitSpeed == 100
DIST_PREPARE == 65
DIST_EXECUTE == 100
MAX_ERROR_THRESHOLD == 150
lane_lost_threshold == 5
recovery_scan_speed == 130
recovery_max_attempts == 2
NoLaneError == 999
\* detect_line on the 640x480 frame: the frame centre, the calibrated lane
\* width in pixels, and the marker for a lane side that was not found (None)
center_x == 320
LANE_WIDTH_PIXELS == 240
NoLaneSide == -1

\* MPU-6050: the identity WHO_AM_I must read (0x68), identity attempts
MPU_ID == 104
max_retries == 3
\* _read_word_safe: attempts per register read, and the error count at
\* which the device is declared disconnected
ReadRetries == 3
MAX_READ_ERRORS == 5

(* ------------------------------ inputs -------------------------------- *)

\* lane_following.base_speed in the loaded configuration
BaseSpeeds == {80, DefaultBaseSpeed, 150}
\* the sign classes that act on the base speed
SpeedSigns == {"green_light", "speed_limit_signs"}

\* the keys detect_line reads from its config argument
LaneKeys == {"blur_kernel", "canny_low", "canny_high", "roi_top_ratio",
             "roi_bottom_ratio", "hough_threshold", "min_line_length",
             "max_line_gap"}
\* the ai.lane_detection section of the loaded configuration: complete,
\* absent (the empty dict of .get(..., {})), or lacking some keys
LaneConfigs == {LaneKeys, {}, LaneKeys \ {"max_line_gap"},
                {"blur_kernel", "canny_low"}}

\* outcome of one read of the identity register: the byte read, or
\* ReadError when the bus read raised
ReadError == -1
WhoAmIReads == {ReadError, MPU_ID, 0, 112}

\* values the operator passes to set_speed
SpeedInputs == {-10, 127, 300}
\* modes requested through set_mode
ModeInputs == {"manual", "auto", "follow", "turbo"}
\* the sign the detector selects in a frame: class name and size in pixels
SignNames == {"stop_sign", "green_light", "left_turn_sign", "right_turn_sign",
              "speed_limit_signs", "parking_signs"}
SignSizes == {50, 80, 120}
\* detect_line's error from the bottom positions of the left and right lane
\* sides: midline of both, one side offset by half the lane width, or the
\* sentinel when neither side was found
DetectLineErrorCentered(left_lane_x, right_lane_x) ==
  IF left_lane_x # NoLaneSide /\ right_lane_x # NoLaneSide
    THEN (left_lane_x + right_lane_x) \div 2 - center_x
  ELSE 0
DetectLineError(left_lane_x, right_lane_x) ==
  IF left_lane_x # NoLaneSide /\ right_lane_x # NoLaneSide
    THEN (left_lane_x + right_lane_x) \div 2 - center_x
  ELSE IF left_lane_x # NoLaneSide
    THEN left_lane_x + LANE_WIDTH_PIXELS \div 2 - center_x
  ELSE IF right_lane_x # NoLaneSide
    THEN right_lane_x - LANE_WIDTH_PIXELS \div 2 - center_x
  ELSE NoLaneError
\* lane sides seen in a frame: both (a lane 40 px right of centre), none
LanePairs == {<<240, 480>>, <<NoLaneSide, NoLaneSide>>}
\* lane errors detect_line reports (999: no lane side found)
LaneErrors == {DetectLineError(p[1], p[2]) : p \in LanePairs}
\* corrections the PID controller returns (its output is clamped to +-255)
Corrections == {-255, 30}
\* yaw angles (degrees) the IMU reports during a turn
\* target angles of a turn: the two the auto loop passes, and others in range
TurnAngles == {-180, -90, -45, 45, 90, 180}
YawSamples == {0, 70, 85, 90}
\* arguments of set_motors on the serial driver
MotorInputs == {-9999, -255, 0, 100, 255, 9999}
\* threads that use the shared camera: the /video_feed handler with its
\* frame generator, and AutoModeController.start() with its loop
CamThreads == {"stream", "auto"}
\* browsers connected to /video_feed, each served by its own generate_frames()
Clients == {"a", "b"}
\* config arguments passed to get_web_camera
Configs == {"cfgA", "cfgB"}
\* speed arguments of the serial driver's forward/backward/turn_left/turn_right
SerialSpeeds == {150, 300}
\* speed arguments of the L298N driver's forward/backward/turn_left/turn_right
GpioSpeeds == {180, 300}

VARIABLES
  \* RobotController
  current_mode, current_state, current_speed, emergency_stopped,
  last_command_age,
  \* motor driver: commanded wheel speeds
  left_speed, right_speed,
  \* AutoModeController
  running, loop_pc, base_speed, lane_lost_count, recovery_mode,
  recovery_direction, recovery_scan_time, recovery_attempts, stop_pc,
  \* locals of the smart_turn call in flight
  turn_target, turn_elapsed, stuck_counter, last_yaw, turn_speed,
  \* observation: the last command and its return value, whether the
  \* watchdog force-stopped since
  last_call, watchdog_fired,
  \* ArduinoDriver: connected flag, serial port ("none", "open", "closed"),
  \* read thread alive, the simulated microcontroller ("echo" answers a PING
  \* with status ok, "silent" never replies), the commands written to the
  \* port (the latest MaxTx), the lines waiting in the port's input buffer,
  \* the driver's life cycle, the last call made
  connected, serial, read_thread, mcu, tx, rx, conn_pc, last_drv_call,
  \* L298NDriver: stored speeds, the values applied to the two gpiozero
  \* motors (in 1/255ths of full scale), the configured reverse flags
  current_left_speed, current_right_speed, left_value, right_value,
  left_reverse, right_reverse,
  \* camera_manager module: the singleton (0: None, else the instance's
  \* number) and its lock, instances constructed so far and since the last
  \* release
  web_camera_instance, web_camera_lock, cams_built, built_in_epoch,
  \* per CameraManager instance: config, running flag, self.camera set,
  \* camera sessions opened and not stopped, holder of self.lock
  cam_config, cam_running, cam_device, dev_open, cam_lock,
  \* per caller thread: position, the instance it holds; the threads inside
  \* capture_array; the position of the thread running release_web_camera
  cam_pc, cam_ref, capturing, rel_pc,
  \* IMUSensorFusion under construction: position in _init_hardware, the
  \* index of the identity attempt, the outcomes of the identity reads so
  \* far, self.connected
  imu_pc, imu_attempt, who_reads, imu_connected,
  \* self.read_error_count, and the number of register reads in a row that
  \* have exhausted their retries
  read_error_count, exhausted_run,
  \* AutoModeController.detection_config: the keys of the dict handed to
  \* detect_line
  detection_config,
  \* AutoModeController.default_speed: lane_following.base_speed as loaded
  default_speed,
  \* StreamingCameraManager singleton: the streaming flag; per client the
  \* state of its generator ("none", "run", "ended": the while test failed,
  \* "closed": its client disconnected) and the frames it has yielded
  streaming, gen, frames

ctlVars == <<current_mode, current_state, current_speed, emergency_stopped,
             last_command_age>>
drvVars == <<left_speed, right_speed>>
autoVars == <<running, loop_pc, base_speed, lane_lost_count, recovery_mode,
              recovery_direction, recovery_scan_time, recovery_attempts, stop_pc>>
turnVars == <<turn_target, turn_elapsed, stuck_counter, last_yaw, turn_speed>>
obsVars == <<last_call, watchdog_fired>>
serialVars == <<connected, serial, read_thread, mcu, tx, rx, conn_pc, last_drv_call>>
gpioVars == <<current_left_speed, current_right_speed, left_value, right_value,
              left_reverse, right_reverse>>
camVars == <<web_camera_instance, web_camera_lock, cams_built, built_in_epoch,
             cam_config, cam_running, cam_device, dev_open, cam_lock,
             cam_pc, cam_ref, capturing, rel_pc>>
imuVars == <<imu_pc, imu_attempt, who_reads, imu_connected,
             read_error_count, exhausted_run>>
cfgVars == <<detection_config, default_speed>>
streamVars == <<streaming, gen, frames>>
hwVars == <<gpioVars, camVars, imuVars, cfgVars, streamVars>>
vars == <<ctlVars, drvVars, autoVars, turnVars, obsVars, serialVars, hwVars>>

(* --------------------------- motor driver ----------------------------- *)

Max(a, b) == IF a >= b THEN a ELSE b
Min(a, b) == IF a <= b THEN a ELSE b
Abs(x) == IF x < 0 THEN -x ELSE x

\* max(-255, min(255, speed))
ClampPwm(x) == Max(-MaxPwm, Min(MaxPwm, x))

\* the pair a driver stores for set_motors(left, right)
DrvSetMotors(l, r) == <<ClampPwm(l), ClampPwm(r)>>
DrvForward(s) == DrvSetMotors(s, s)
DrvBackward(s) == DrvSetMotors(-s, -s)
DrvTurnLeft(s) == DrvSetMotors(-s, s)
DrvTurnRight(s) == DrvSetMotors(s, -s)
DrvStop == DrvSetMotors(0, 0)

\* the driver's stored speeds become pair p
Drive(p) == left_speed' = p[1] /\ right_speed' = p[2]
Stopped == left_speed = 0 /\ right_speed = 0

\* int(x * 0.8) for an integer 0 <= x <= 255
TurnSpeedRounded(s) == (s * 8 + 5) \div 10
TurnSpeedOf(s) == (s * 8) \div 10

(* ------------------------- RobotController ---------------------------- *)

\* last_call after any command other than forward/backward/left/right
OtherCall == <<"other", TRUE>>

MotionLabels == {"MOVING FORWARD", "MOVING BACKWARD", "TURNING LEFT", "TURNING RIGHT"}

CheckManualModeNoEmergency == current_mode = "manual"
CheckManualModeAnyMode == ~emergency_stopped
CheckManualMode == ~emergency_stopped /\ current_mode = "manual"

\* forward/backward/left/right: guard, driver command, label, command time
ManualCommand(name, pair, label) ==
  /\ IF CheckManualMode
       THEN /\ Drive(pair)
            /\ current_state' = label
            /\ last_command_age' = 0
            /\ last_call' = <<name, TRUE>>
            /\ watchdog_fired' = FALSE
       ELSE /\ UNCHANGED <<left_speed, right_speed, current_state,
                           last_command_age, watchdog_fired>>
            /\ last_call' = <<name, FALSE>>
  /\ UNCHANGED <<current_mode, current_speed, emergency_stopped,
                 autoVars, turnVars, serialVars, hwVars>>

Forward == ManualCommand("forward", DrvForward(current_speed), "MOVING FORWARD")
Backward == ManualCommand("backward", DrvBackward(current_speed), "MOVING BACKWARD")
Left == ManualCommand("left", DrvTurnLeft(TurnSpeedOf(current_speed)), "TURNING LEFT")
Right == ManualCommand("right", DrvTurnRight(TurnSpeedOf(current_speed)), "TURNING RIGHT")

\* label RobotController.stop() leaves
StopLabel == IF current_mode = "manual" THEN "STOPPED"
             ELSE IF current_mode = "auto" THEN "AUTO MODE" ELSE current_state

Stop ==
  /\ Drive(DrvStop)
  /\ current_state' = StopLabel
  /\ last_command_age' = 0
  /\ last_call' = OtherCall
  /\ watchdog_fired' = FALSE
  /\ UNCHANGED <<current_mode, current_speed, emergency_stopped,
                 autoVars, turnVars, serialVars, hwVars>>

EmergencyStop ==
  /\ Drive(DrvStop)
  /\ emergency_stopped' = TRUE
  /\ current_state' = "EMERGENCY STOP"
  /\ last_call' = OtherCall
  /\ watchdog_fired' = FALSE
  /\ UNCHANGED <<current_mode, current_speed, last_command_age,
                 autoVars, turnVars, serialVars, hwVars>>

ResetEmergency ==
  /\ emergency_stopped' = FALSE
  /\ current_state' = "IDLE"
  /\ last_call' = OtherCall
  /\ UNCHANGED <<current_mode, current_speed, last_command_age, drvVars,
                 autoVars, turnVars, watchdog_fired,
                 serialVars, hwVars>>

SetSpeed(v) ==
  /\ current_speed' = Max(0, Min(255, v))
  /\ last_call' = OtherCall
  /\ UNCHANGED <<current_mode, current_state, emergency_stopped,
                 last_command_age, drvVars, autoVars, turnVars,
                 watchdog_fired, serialVars, hwVars>>

\* RobotController.set_mode: the modes it accepts, and the label it leaves
SupportedModes == {"manual", "auto"}
\* the modes the dashboard's /set_mode route lets through to set_mode
DashboardModes == {"manual", "auto", "follow"}
ModeLabel(mode) == IF mode = "auto" THEN "AUTO MODE" ELSE "IDLE"

SetMode(mode) ==
  /\ IF mode \in SupportedModes
       THEN /\ current_mode' = mode
            /\ current_state' = ModeLabel(mode)
            /\ last_call' = <<"set_mode", TRUE>>
       ELSE /\ UNCHANGED <<current_mode, current_state>>
            /\ last_call' = <<"set_mode", FALSE>>
  /\ UNCHANGED <<current_speed, emergency_stopped, last_command_age,
                 drvVars, autoVars, turnVars, watchdog_fired, serialVars, hwVars>>

\* time passes: the clock since the last command advances (saturating)
Tick ==
  /\ last_command_age <= Timeout
  /\ last_command_age' = last_command_age + 1
  /\ UNCHANGED <<current_mode, current_state, current_speed, emergency_stopped,
                 drvVars, autoVars, turnVars, obsVars, serialVars, hwVars>>

\* one iteration of the watchdog thread
WatchdogFires == last_command_age > Timeout /\ current_mode = "manual" /\ ~Stopped
WatchdogLabelKeepsStopped ==
  IF WatchdogFires THEN "STOPPED"
  ELSE IF current_state \in MotionLabels /\ Stopped THEN "IDLE" ELSE current_state
WatchdogLabel ==
  IF WatchdogFires THEN "IDLE"
  ELSE IF current_state \in MotionLabels /\ Stopped THEN "IDLE" ELSE current_state

Watchdog ==
  /\ IF WatchdogFires
       THEN /\ Drive(DrvStop)
            /\ last_command_age' = 0
            /\ watchdog_fired' = TRUE
       ELSE UNCHANGED <<left_speed, right_speed, last_command_age, watchdog_fired>>
  /\ current_state' = WatchdogLabel
  /\ UNCHANGED <<current_mode, current_speed, emergency_stopped,
                 autoVars, turnVars, last_call,
                 serialVars, hwVars>>

(* ------------------------ AutoModeController -------------------------- *)

TurnPcs == {"turn_entry", "turn_check", "turn_cmd", "turn_fb"}

\* a start() that launches the loop on the counter and speed it finds
AutoStartStale(cam_ok) ==
  /\ IF ~running /\ cam_ok
       THEN /\ UNCHANGED <<lane_lost_count, base_speed>>
            /\ current_mode' = "auto"
            /\ current_state' = ModeLabel("auto")
            /\ running' = TRUE
            /\ loop_pc' = IF loop_pc = "dead" THEN "top" ELSE loop_pc
            /\ last_call' = OtherCall
       ELSE /\ UNCHANGED <<lane_lost_count, base_speed, current_mode, current_state,
                           running, loop_pc>>
            /\ last_call' = OtherCall
  /\ UNCHANGED <<current_speed, emergency_stopped, last_command_age,
                 drvVars, recovery_mode, recovery_direction, recovery_scan_time,
                 recovery_attempts, stop_pc, turnVars, watchdog_fired, serialVars, hwVars>>

\* start(): camera up, PID/lost counter/base speed reset, mode auto, thread
\* launched.  The only test is the running flag: when stop() has cleared it
\* and the earlier thread has not ended yet (it has not reached its next
\* running test, or the join timed out while it is inside smart_turn),
\* start() launches a new thread beside it.  loop_pc keeps following the
\* earlier thread, which reads running True again and carries on; the
\* iterations of the thread beside it are not followed.
AutoStart(cam_ok) ==
  /\ IF ~running /\ cam_ok
       THEN /\ lane_lost_count' = 0
            /\ base_speed' = default_speed
            /\ current_mode' = "auto"
            /\ current_state' = ModeLabel("auto")
            /\ running' = TRUE
            /\ loop_pc' = IF loop_pc = "dead" THEN "top" ELSE loop_pc
            /\ last_call' = OtherCall
       ELSE /\ UNCHANGED <<lane_lost_count, base_speed, current_mode, current_state,
                           running, loop_pc>>
            /\ last_call' = OtherCall
  /\ UNCHANGED <<current_speed, emergency_stopped, last_command_age,
                 drvVars, recovery_mode, recovery_direction, recovery_scan_time,
                 recovery_attempts, stop_pc, turnVars, watchdog_fired, serialVars, hwVars>>

\* stop(), first half: clear the running flag, then wait in join(timeout=2.0)
AutoStopBegin ==
  /\ stop_pc = "idle"
  /\ running' = FALSE
  /\ stop_pc' = "join"
  /\ UNCHANGED <<ctlVars, drvVars, loop_pc, base_speed, lane_lost_count,
                 recovery_mode, recovery_direction, recovery_scan_time,
                 recovery_attempts, turnVars, obsVars, serialVars, hwVars>>

\* the join returns: the thread has ended, or 2 s have passed while it is
\* still inside smart_turn's IMU loop (the one call of an iteration that can
\* last longer: up to its 5 s timeout; the fallback turn takes 0.6 s)
JoinReturns == loop_pc = "dead" \/ loop_pc \in {"turn_check", "turn_cmd"}

\* stop(), second half: the final driver.stop()
AutoStopEnd ==
  /\ stop_pc = "join"
  /\ JoinReturns
  /\ Drive(DrvStop)
  /\ watchdog_fired' = FALSE
  /\ stop_pc' = "idle"
  /\ UNCHANGED <<ctlVars, running, loop_pc, base_speed, lane_lost_count,
                 recovery_mode, recovery_direction, recovery_scan_time,
                 recovery_attempts, turnVars, last_call, serialVars, hwVars>>

\* the loop thread issues the driver command that stores `pair`
LoopDrive(pair) == Drive(pair)

\* leaving the while loop: the driver.stop() after it
LoopExitNoStop ==
  /\ loop_pc' = "dead"
  /\ UNCHANGED <<left_speed, right_speed>>
LoopExit ==
  /\ loop_pc' = "dead"
  /\ LoopDrive(DrvStop)

\* the guard at the top of an iteration
LoopGuardSkips == current_mode # "auto" \/ emergency_stopped

\* while self.running: ... if mode != auto or emergency: sleep; continue
LoopTop ==
  /\ loop_pc = "top"
  /\ IF ~running
       THEN LoopExit
       ELSE /\ loop_pc' = IF LoopGuardSkips THEN "top" ELSE "frame"
            /\ UNCHANGED <<left_speed, right_speed>>
  /\ UNCHANGED <<ctlVars, running, base_speed, lane_lost_count, recovery_mode,
                 recovery_direction, recovery_scan_time, recovery_attempts,
                 stop_pc, turnVars, obsVars, serialVars, hwVars>>

\* _perform_lane_recovery on a frame whose lane error is err, from scan state
\* (dir, scan, att): the new scan state, whether the lane was found, and
\* whether a scan turn was commanded
PerformLaneRecovery(err, dir, scan, att) ==
  IF Abs(err) <= MAX_ERROR_THRESHOLD
    THEN [found |-> TRUE, dir |-> dir, scan |-> scan, att |-> att, turned |-> FALSE]
    ELSE IF scan + 1 >= ScanSteps
      THEN LET ndir == IF dir = "left" THEN "right" ELSE "left"
               natt == IF dir = "left" THEN att ELSE att + 1
           IN [found |-> FALSE, dir |-> ndir, scan |-> 0, att |-> natt,
               turned |-> natt < recovery_max_attempts]
      ELSE [found |-> FALSE, dir |-> dir, scan |-> scan + 1, att |-> att,
            turned |-> TRUE]

\* the iteration where the lost counter is at or over the threshold
LostThresholdReachedLate(n) == n > lane_lost_threshold
LostThresholdReached(n) == n >= lane_lost_threshold

\* steps 3 of an iteration on an invalid reading: count, search or recover
LaneLost(err, label) ==
  LET n == Min(lane_lost_count + 1, LostCap) IN
  /\ IF LostThresholdReached(n)
       THEN LET fresh == ~recovery_mode
                r == PerformLaneRecovery(err,
                       IF fresh THEN "left" ELSE recovery_direction,
                       IF fresh THEN 0 ELSE recovery_scan_time,
                       IF fresh THEN 0 ELSE recovery_attempts)
                failed == ~r.found /\ r.att >= recovery_max_attempts
            IN /\ lane_lost_count' = IF r.found THEN 0 ELSE n
               /\ recovery_direction' = r.dir
               /\ recovery_scan_time' = r.scan
               /\ recovery_attempts' = r.att
               /\ recovery_mode' = (~r.found /\ ~failed)
               /\ IF failed
                    THEN /\ LoopDrive(DrvStop)
                         /\ current_state' = "RECOVERY FAILED"
                    ELSE IF r.turned
                      THEN /\ LoopDrive(IF r.dir = "left"
                                          THEN DrvTurnLeft(recovery_scan_speed)
                                          ELSE DrvTurnRight(recovery_scan_speed))
                           /\ current_state' = IF r.dir = "left" THEN "SCAN LEFT"
                                               ELSE "SCAN RIGHT"
                      ELSE /\ current_state' = label
                           /\ UNCHANGED <<left_speed, right_speed>>
       ELSE /\ lane_lost_count' = n
            /\ LoopDrive(DrvStop)
            /\ current_state' = "SEARCHING"
            /\ UNCHANGED <<recovery_mode, recovery_direction, recovery_scan_time,
                           recovery_attempts>>

\* int(base_speed -/+ correction), clamped, as the loop mixes them
MixSpeeds(base, corr) == <<ClampPwm(base - corr), ClampPwm(base + corr)>>

\* step 4 of an iteration on a valid reading: PID mixing and set_motors
LaneFollow(corr, label) ==
  /\ lane_lost_count' = 0
  /\ recovery_mode' = FALSE
  /\ UNCHANGED <<recovery_direction, recovery_scan_time, recovery_attempts>>
  /\ current_state' = label
  /\ LET m == MixSpeeds(base_speed', corr)
     IN LoopDrive(DrvSetMotors(m[1], m[2]))

\* steps 2-4: lane detection and what follows, with the state label `label`
\* left by the sign handling of this iteration
LaneStep(err, corr, label, has_sign) ==
  /\ IF Abs(err) > MAX_ERROR_THRESHOLD
       THEN LaneLost(err, label)
       ELSE LaneFollow(corr, IF has_sign THEN label ELSE "FOLLOWING LANE")
  /\ loop_pc' = "top"

\* the except handler of an iteration: driver.stop(); break; then the
\* driver.stop() after the loop
LoopRaise ==
  /\ LoopExit
  /\ UNCHANGED <<current_state, base_speed, lane_lost_count, recovery_mode,
                 recovery_direction, recovery_scan_time, recovery_attempts,
                 turnVars>>

\* entering smart_turn(target, speed=250) from the sign handling
CallSmartTurn(target) ==
  /\ loop_pc' = "turn_entry"
  /\ turn_target' = target
  /\ UNCHANGED <<current_state, base_speed, lane_lost_count, recovery_mode,
                 recovery_direction, recovery_scan_time, recovery_attempts,
                 turn_elapsed, stuck_counter, last_yaw, turn_speed,
                 left_speed, right_speed>>

\* what every step of the loop thread outside smart_turn leaves alone
LoopFrame ==
  UNCHANGED <<current_mode, current_speed, emergency_stopped, last_command_age,
              stop_pc, obsVars, serialVars, hwVars>>

\* capture_frame() returned None: sleep(0.1); continue
LoopNoFrame ==
  /\ loop_pc = "frame"
  /\ loop_pc' = "top"
  /\ UNCHANGED <<current_state, base_speed, lane_lost_count, recovery_mode,
                 recovery_direction, recovery_scan_time, recovery_attempts,
                 turnVars, left_speed, right_speed, running>>
  /\ LoopFrame

\* capture or detection raised
LoopFrameRaises ==
  /\ loop_pc = "frame"
  /\ LoopRaise
  /\ UNCHANGED running
  /\ LoopFrame

\* parking: driver.stop(); self.stop() clears running and raises in join()
\* (a thread cannot join itself): handled by the except clause
ParkingShutdownKeepsRunning ==
  /\ UNCHANGED running
  /\ LoopRaise
ParkingShutdown ==
  /\ running' = FALSE
  /\ LoopRaise

\* `elif sign_size >= self.DIST_EXECUTE`: the sign is close enough to act on
InExecuteBandFromPrepare(size) == size >= DIST_PREPARE
InExecuteBand(size) == size >= DIST_EXECUTE

\* one iteration body after the guard on a captured frame: sign detection and
\* reaction, lane detection, recovery or PID.  sign is "none" or the class of
\* the largest detection, of size `size`.
LoopBody(sign, size, err, corr) ==
  /\ loop_pc = "frame"
  /\ IF sign = "none" THEN
       /\ base_speed' = base_speed
       /\ LaneStep(err, corr, current_state, FALSE)
       /\ UNCHANGED <<turnVars, running>>
     ELSE IF size < DIST_PREPARE THEN
       /\ base_speed' = base_speed
       /\ LaneStep(err, corr, "DETECTED", TRUE)
       /\ UNCHANGED <<turnVars, running>>
     ELSE IF ~InExecuteBand(size) THEN
       /\ base_speed' = base_speed
       /\ LaneStep(err, corr, "PREPARE", TRUE)
       /\ UNCHANGED <<turnVars, running>>
     ELSE IF sign = "stop_sign" THEN
       /\ LoopDrive(DrvStop)
       /\ loop_pc' = "top"
       /\ UNCHANGED <<current_state, base_speed, lane_lost_count, recovery_mode,
                      recovery_direction, recovery_scan_time, recovery_attempts,
                      turnVars, running>>
     ELSE IF sign = "left_turn_sign" THEN
       CallSmartTurn(90) /\ UNCHANGED running
     ELSE IF sign = "right_turn_sign" THEN
       CallSmartTurn(-90) /\ UNCHANGED running
     ELSE IF sign = "parking_signs" THEN
       ParkingShutdown
     ELSE
       /\ base_speed' = IF sign = "green_light" THEN default_speed
                        ELSE SpeedLimitSpeed
       /\ LaneStep(err, corr, current_state, TRUE)
       /\ UNCHANGED <<turnVars, running>>
  /\ LoopFrame

\* detect_line(frame, config) with a dict for config: the defaults are
\* taken only for config None; a dict is indexed key by key
DetectLineRaises(config) == ~(LaneKeys \subseteq config)

\* an iteration on a frame with no detection, lane detection called with
\* self.detection_config
LoopLaneFrame(err, corr) ==
  IF DetectLineRaises(detection_config)
    THEN LoopFrameRaises
    ELSE LoopBody("none", 0, err, corr)

(* ----------------------------- smart_turn ----------------------------- *)

\* the speed clamp at entry
ClampTurnSpeed(speed) ==
  IF speed < MinTurnSpeed THEN MinTurnSpeed
  ELSE IF speed > MaxPwm THEN MaxPwm ELSE speed

\* int(speed * 0.7); the product falls just below the integer for 170 and 180
Int07(speed) == IF speed \in {170, 180} THEN (speed * 7) \div 10 - 1
                ELSE (speed * 7) \div 10

\* the adaptive speed for a remaining angle `error`
AdaptiveSpeed(speed, error) ==
  IF error > 30 THEN speed
  ELSE IF error > 10 THEN Int07(speed)
  ELSE Max(MinTurnSpeed, speed \div 2)

TurnCommandAlwaysLeft(target, speed) == DrvTurnLeft(speed)
TurnCommand(target, speed) ==
  IF target > 0 THEN DrvTurnLeft(speed) ELSE DrvTurnRight(speed)

\* _fallback_turn's hold time in milliseconds: 0.6 s * (|target_angle| / 90)
FallbackDuration(target) == (600 * Abs(target)) \div 90

\* smart_turn returns to the loop, which continues with the next iteration
TurnReturn ==
  /\ loop_pc' = "top"
  /\ turn_target' = 0 /\ turn_elapsed' = 0 /\ stuck_counter' = 0
  /\ last_yaw' = 0 /\ turn_speed' = 0

\* the finally clause: driver.stop(), settle pause, return
TurnFinally ==
  /\ TurnReturn
  /\ LoopDrive(DrvStop)

\* entry guards, then the time-based fallback or the start of the IMU loop;
\* imu_available: self.imu is set and reports connected at this call
TurnEntry(imu_available) ==
  /\ loop_pc = "turn_entry"
  /\ IF emergency_stopped \/ Abs(turn_target) > 180 THEN
       /\ TurnReturn
       /\ UNCHANGED <<left_speed, right_speed>>
     ELSE IF ~imu_available THEN
       /\ LoopDrive(TurnCommand(turn_target, ClampTurnSpeed(SmartTurnSpeed)))
       /\ loop_pc' = "turn_fb"
       /\ UNCHANGED turnVars
     ELSE
       /\ loop_pc' = "turn_check"
       /\ turn_elapsed' = 0 /\ last_yaw' = 0 /\ stuck_counter' = 0
       /\ turn_speed' = ClampTurnSpeed(SmartTurnSpeed)
       /\ UNCHANGED <<turn_target, left_speed, right_speed>>
  /\ UNCHANGED <<ctlVars, running, base_speed, lane_lost_count, recovery_mode,
                 recovery_direction, recovery_scan_time, recovery_attempts,
                 stop_pc, obsVars, serialVars, hwVars>>

\* _fallback_turn after its sleep: driver.stop()
TurnFallbackEnd ==
  /\ loop_pc = "turn_fb"
  /\ TurnFinally
  /\ UNCHANGED <<ctlVars, running, base_speed, lane_lost_count, recovery_mode,
                 recovery_direction, recovery_scan_time, recovery_attempts,
                 stop_pc, obsVars, serialVars, hwVars>>

\* the timeout test of the loop
TurnTimedOutNever(elapsed) == FALSE
TurnTimedOut(elapsed) == elapsed > TurnTimeout

\* `if self.emergency_stopped: break` at the head of each iteration
TurnInterruptedNever == FALSE
TurnInterrupted == emergency_stopped

\* the first half of a loop iteration: the exit tests on a yaw sample
\* (raised: reading the IMU raised)
TurnCheck(yaw, raised) ==
  /\ loop_pc = "turn_check"
  /\ LET error == Abs(turn_target) - Abs(yaw)
         still == Abs(yaw - last_yaw) < 1
         stuck == IF still THEN stuck_counter + 1 ELSE 0
         over == \/ turn_target > 0 /\ yaw > turn_target + 5
                 \/ turn_target < 0 /\ yaw < turn_target - 5
     IN IF \/ TurnInterrupted
           \/ raised
           \/ error <= 2
           \/ TurnTimedOut(turn_elapsed)
           \/ (still /\ stuck > StuckLimit)
           \/ over
          THEN TurnFinally
          ELSE /\ loop_pc' = "turn_cmd"
               /\ stuck_counter' = stuck
               /\ last_yaw' = yaw
               /\ turn_speed' = AdaptiveSpeed(ClampTurnSpeed(SmartTurnSpeed), error)
               /\ UNCHANGED <<turn_target, turn_elapsed, left_speed, right_speed>>
  /\ UNCHANGED <<ctlVars, running, base_speed, lane_lost_count, recovery_mode,
                 recovery_direction, recovery_scan_time, recovery_attempts,
                 stop_pc, obsVars, serialVars, hwVars>>

\* the second half: the turn command and sleep(0.01)
TurnCmd ==
  /\ loop_pc = "turn_cmd"
  /\ LoopDrive(TurnCommand(turn_target, turn_speed))
  /\ turn_elapsed' = turn_elapsed + 1
  /\ loop_pc' = "turn_check"
  /\ UNCHANGED <<turn_target, stuck_counter, last_yaw, turn_speed>>
  /\ UNCHANGED <<ctlVars, running, base_speed, lane_lost_count, recovery_mode,
                 recovery_direction, recovery_scan_time, recovery_attempts,
                 stop_pc, obsVars, serialVars, hwVars>>

(* --------------------------- ArduinoDriver ---------------------------- *)

\* the port's record of written commands, keeping the latest MaxTx
Written(log, cmd) ==
  IF Len(log) < MaxTx THEN Append(log, cmd) ELSE Append(Tail(log), cmd)

\* send_command's guard: it sends only when connected with a serial object
CanSend == connected /\ serial # "none"

\* send_command(cmd, wait_response): what it writes and what it returns.
\* A write on a closed port raises and is caught (None); with wait_response
\* the reply is the microcontroller's answer or None after the 1 s timeout.
SendCommand(cmd, wait) ==
  IF ~CanSend THEN [log |-> tx, response |-> "None"]
  ELSE IF serial = "closed" THEN [log |-> tx, response |-> "None"]
  ELSE [log |-> Written(tx, cmd),
        response |-> IF ~wait THEN "sent"
                     ELSE IF cmd = <<"PING">> /\ mcu = "echo" THEN "ok"
                     ELSE "None"]

\* connect(), called by the constructor: open the port, PING, and on a
\* status-ok reply mark connected and start the read thread
Connect(port_ok) ==
  /\ conn_pc = "new"
  /\ conn_pc' = "done"
  /\ last_drv_call' = <<"connect">>
  /\ IF ~port_ok
       THEN /\ connected' = FALSE
            /\ UNCHANGED <<serial, read_thread, tx, rx>>
       ELSE LET r == SendCommand(<<"PING">>, TRUE)
            IN /\ serial' = "open"
               /\ tx' = r.log
               /\ rx' = 0
               /\ connected' = (connected \/ r.response = "ok")
               /\ read_thread' = (read_thread \/ r.response = "ok")
  /\ UNCHANGED <<mcu, ctlVars, drvVars, autoVars, turnVars, obsVars, hwVars>>

\* set_motors(left, right): clamp, store, send MOVE without waiting
SetMotors(l, r) ==
  /\ conn_pc # "new"
  /\ LET p == DrvSetMotors(l, r)
     IN /\ Drive(p)
        /\ tx' = SendCommand(<<"MOVE", p[1], p[2]>>, FALSE).log
  /\ last_drv_call' = <<"set_motors", l, r>>
  /\ UNCHANGED <<connected, serial, read_thread, mcu, rx, conn_pc,
                 ctlVars, autoVars, turnVars, obsVars, hwVars>>

\* forward/backward/turn_left/turn_right: set_motors with the signed speeds
SerialForward(s) == SetMotors(s, s)
SerialBackward(s) == SetMotors(-s, -s)
SerialTurnLeft(s) == SetMotors(-s, s)
SerialTurnRight(s) == SetMotors(s, -s)

\* stop(): set_motors(0, 0), then the STOP command
SerialStop ==
  /\ conn_pc # "new"
  /\ Drive(DrvStop)
  /\ tx' = IF CanSend /\ serial = "open"
             THEN Written(Written(tx, <<"MOVE", 0, 0>>), <<"STOP">>) ELSE tx
  /\ last_drv_call' = <<"stop">>
  /\ UNCHANGED <<connected, serial, read_thread, mcu, rx, conn_pc,
                 ctlVars, autoVars, turnVars, obsVars, hwVars>>

\* disconnect(): stop the read thread, close the port, clear connected
Disconnect ==
  /\ conn_pc # "new"
  /\ conn_pc' = "closed"
  /\ read_thread' = FALSE
  /\ serial' = IF serial = "open" THEN "closed" ELSE serial
  /\ connected' = FALSE
  /\ last_drv_call' = <<"disconnect">>
  /\ UNCHANGED <<tx, rx, mcu, ctlVars, drvVars, autoVars, turnVars, obsVars, hwVars>>

\* the microcontroller writes a telemetry or status line: one more line
\* waiting in the port's input buffer (serial.in_waiting > 0)
McuSendsLine ==
  /\ serial = "open" /\ mcu = "echo"
  /\ rx < MaxRx
  /\ rx' = rx + 1
  /\ UNCHANGED <<connected, serial, read_thread, mcu, tx, conn_pc, last_drv_call,
                 ctlVars, drvVars, autoVars, turnVars, obsVars, hwVars>>

\* send_command(cmd) with wait_response left at its default, called on a
\* constructed driver: None at the guard when not connected; otherwise the
\* command is written and the caller's own thread polls in_waiting and
\* takes the first line it finds with readline(), or times out after 1 s.
\* (_read_loop, the other reader, runs only on a driver whose read_thread
\* was started by connect().)
SendCommandCall(cmd) ==
  /\ conn_pc # "new"
  /\ tx' = SendCommand(cmd, TRUE).log
  /\ rx' = IF CanSend /\ serial = "open" /\ rx > 0 THEN rx - 1 ELSE rx
  /\ last_drv_call' = <<"send_command">>
  /\ UNCHANGED <<connected, serial, read_thread, mcu, conn_pc,
                 ctlVars, drvVars, autoVars, turnVars, obsVars, hwVars>>

(* ---------------------------- L298NDriver ----------------------------- *)

\* _speed_to_value: clamp to [-255, 255], then speed / 255.0 (kept in 1/255ths)
SpeedToValue(speed) == ClampPwm(speed)

\* set_left_motor / set_right_motor: the value applied and the speed stored
GpioApplied(speed, reverse) ==
  IF reverse THEN -SpeedToValue(speed) ELSE SpeedToValue(speed)
GpioStored(speed) == speed

GpioFrame ==
  UNCHANGED <<left_reverse, right_reverse, ctlVars, drvVars, autoVars, turnVars,
              obsVars, serialVars, camVars, imuVars, cfgVars, streamVars>>

\* set_motors(left, right): set_left_motor, then set_right_motor
GpioSetMotors(l, r) ==
  /\ left_value' = GpioApplied(l, left_reverse)
  /\ current_left_speed' = GpioStored(l)
  /\ right_value' = GpioApplied(r, right_reverse)
  /\ current_right_speed' = GpioStored(r)
  /\ GpioFrame

GpioForward(s) == GpioSetMotors(s, s)
GpioBackward(s) == GpioSetMotors(-s, -s)
GpioTurnLeft(s) == GpioSetMotors(-s, s)
GpioTurnRight(s) == GpioSetMotors(s, -s)

\* stop(): both motors stopped, stored speeds zeroed
GpioStop ==
  /\ left_value' = 0 /\ right_value' = 0
  /\ current_left_speed' = 0 /\ current_right_speed' = 0
  /\ GpioFrame

(* --------------------------- camera_manager --------------------------- *)

CamIds == 1..MaxCams

\* `with _web_camera_lock:` can be entered
WebLockIgnored == TRUE
WebLockFree == web_camera_lock = "free"

CamFrame == UNCHANGED <<ctlVars, drvVars, autoVars, turnVars, obsVars,
                        serialVars, gpioVars, imuVars, cfgVars, streamVars>>

\* get_web_camera(config): entering the with-block
GetAcquire(t) ==
  /\ cam_pc[t] = "idle"
  /\ WebLockFree
  /\ web_camera_lock' = t
  /\ cam_pc' = [cam_pc EXCEPT ![t] = "get_check"]
  /\ UNCHANGED <<web_camera_instance, cams_built, built_in_epoch, cam_config,
                 cam_running, cam_device, dev_open, cam_lock, cam_ref,
                 capturing, rel_pc>>
  /\ CamFrame

\* `if _web_camera_instance is None`, or return the instance there is
GetCheck(t) ==
  /\ cam_pc[t] = "get_check"
  /\ IF web_camera_instance = 0
       THEN /\ cam_pc' = [cam_pc EXCEPT ![t] = "get_build"]
            /\ UNCHANGED <<web_camera_lock, cam_ref>>
       ELSE /\ cam_pc' = [cam_pc EXCEPT ![t] = "is_running"]
            /\ cam_ref' = [cam_ref EXCEPT ![t] = web_camera_instance]
            /\ web_camera_lock' = "free"
  /\ UNCHANGED <<web_camera_instance, cams_built, built_in_epoch, cam_config,
                 cam_running, cam_device, dev_open, cam_lock, capturing, rel_pc>>
  /\ CamFrame

\* _web_camera_instance = StreamingCameraManager(config); return it
GetBuild(t, cfg) ==
  /\ cam_pc[t] = "get_build"
  /\ cams_built < MaxCams
  /\ LET id == cams_built + 1
     IN /\ cams_built' = id
        /\ web_camera_instance' = id
        /\ cam_config' = [cam_config EXCEPT ![id] = cfg]
        /\ cam_ref' = [cam_ref EXCEPT ![t] = id]
  /\ built_in_epoch' = built_in_epoch + 1
  /\ web_camera_lock' = "free"
  /\ cam_pc' = [cam_pc EXCEPT ![t] = "is_running"]
  /\ UNCHANGED <<cam_running, cam_device, dev_open, cam_lock, capturing, rel_pc>>
  /\ CamFrame

\* `if not camera.is_running():` in video_feed and _init_shared_camera
IsRunning(t) ==
  /\ cam_pc[t] = "is_running"
  /\ cam_pc' = [cam_pc EXCEPT ![t] = IF cam_running[cam_ref[t]] THEN "loop" ELSE "open"]
  /\ UNCHANGED <<web_camera_instance, web_camera_lock, cams_built, built_in_epoch,
                 cam_config, cam_running, cam_device, dev_open, cam_lock,
                 cam_ref, capturing, rel_pc>>
  /\ CamFrame

\* start()'s except clause on manager i: stop and drop self.camera if set
StartFails(t, i) ==
  /\ dev_open' = [dev_open EXCEPT ![i] = IF cam_device[i] THEN @ - 1 ELSE @]
  /\ cam_device' = [cam_device EXCEPT ![i] = FALSE]
  /\ cam_pc' = [cam_pc EXCEPT ![t] = "idle"]

\* start(): self.camera = Picamera2(), configure, camera.start()
StartOpen(t, ok) ==
  /\ cam_pc[t] = "open"
  /\ LET i == cam_ref[t]
     IN IF ok
          THEN /\ dev_open[i] < MaxOpens
               /\ dev_open' = [dev_open EXCEPT ![i] = @ + 1]
               /\ cam_device' = [cam_device EXCEPT ![i] = TRUE]
               /\ cam_pc' = [cam_pc EXCEPT ![t] = "test"]
          ELSE StartFails(t, i)
  /\ UNCHANGED <<web_camera_instance, web_camera_lock, cams_built, built_in_epoch,
                 cam_config, cam_running, cam_lock, cam_ref, capturing, rel_pc>>
  /\ CamFrame

\* start(): the test capture begins (self.camera.capture_array(), no lock)
StartTestBegin(t) ==
  /\ cam_pc[t] = "test"
  /\ LET i == cam_ref[t]
     IN IF cam_device[i]
          THEN /\ capturing' = capturing \cup {t}
               /\ cam_pc' = [cam_pc EXCEPT ![t] = "testing"]
               /\ UNCHANGED <<dev_open, cam_device>>
          ELSE /\ StartFails(t, i)
               /\ UNCHANGED capturing
  /\ UNCHANGED <<web_camera_instance, web_camera_lock, cams_built, built_in_epoch,
                 cam_config, cam_running, cam_lock, cam_ref, rel_pc>>
  /\ CamFrame

\* start(): the test capture ends; running = True, or the except clause
StartTestEnd(t, ok) ==
  /\ cam_pc[t] = "testing"
  /\ capturing' = capturing \ {t}
  /\ LET i == cam_ref[t]
     IN IF ok
          THEN /\ cam_running' = [cam_running EXCEPT ![i] = TRUE]
               /\ cam_pc' = [cam_pc EXCEPT ![t] = "loop"]
               /\ UNCHANGED <<dev_open, cam_device>>
          ELSE /\ StartFails(t, i)
               /\ UNCHANGED cam_running
  /\ UNCHANGED <<web_camera_instance, web_camera_lock, cams_built, built_in_epoch,
                 cam_config, cam_lock, cam_ref, rel_pc>>
  /\ CamFrame

\* capture_frame(): the running test, `with self.lock:` and the start of
\* capture_array
CaptureBegin(t) ==
  /\ cam_pc[t] = "loop"
  /\ LET i == cam_ref[t]
     IN /\ cam_running[i] /\ cam_device[i]
        /\ cam_lock[i] = "free"
        /\ cam_lock' = [cam_lock EXCEPT ![i] = t]
  /\ capturing' = capturing \cup {t}
  /\ cam_pc' = [cam_pc EXCEPT ![t] = "capturing"]
  /\ UNCHANGED <<web_camera_instance, web_camera_lock, cams_built, built_in_epoch,
                 cam_config, cam_running, cam_device, dev_open, cam_ref, rel_pc>>
  /\ CamFrame

\* capture_frame(): capture_array returns and the lock is released
CaptureEnd(t) ==
  /\ cam_pc[t] = "capturing"
  /\ capturing' = capturing \ {t}
  /\ cam_lock' = [cam_lock EXCEPT ![cam_ref[t]] = "free"]
  /\ cam_pc' = [cam_pc EXCEPT ![t] = "loop"]
  /\ UNCHANGED <<web_camera_instance, web_camera_lock, cams_built, built_in_epoch,
                 cam_config, cam_running, cam_device, dev_open, cam_ref, rel_pc>>
  /\ CamFrame

\* the caller's loop ends (stream client gone, auto loop stopped)
CallerDone(t) ==
  /\ cam_pc[t] = "loop"
  /\ cam_pc' = [cam_pc EXCEPT ![t] = "idle"]
  /\ UNCHANGED <<web_camera_instance, web_camera_lock, cams_built, built_in_epoch,
                 cam_config, cam_running, cam_device, dev_open, cam_lock,
                 cam_ref, capturing, rel_pc>>
  /\ CamFrame

\* release_web_camera(): entering the with-block
ReleaseAcquire ==
  /\ rel_pc = "idle"
  /\ WebLockFree
  /\ web_camera_lock' = "exit"
  /\ rel_pc' = "in_release"
  /\ UNCHANGED <<web_camera_instance, cams_built, built_in_epoch, cam_config,
                 cam_running, cam_device, dev_open, cam_lock, cam_pc, cam_ref,
                 capturing>>
  /\ CamFrame

\* release_web_camera(): instance.stop(), instance = None
ReleaseBody ==
  /\ rel_pc = "in_release"
  /\ LET i == web_camera_instance
     IN IF i # 0
          THEN /\ dev_open' = [dev_open EXCEPT ![i] = IF cam_device[i] THEN @ - 1 ELSE @]
               /\ cam_device' = [cam_device EXCEPT ![i] = FALSE]
               /\ cam_running' = [cam_running EXCEPT ![i] = FALSE]
          ELSE UNCHANGED <<dev_open, cam_device, cam_running>>
  /\ web_camera_instance' = 0
  /\ built_in_epoch' = 0
  /\ web_camera_lock' = "free"
  /\ rel_pc' = "idle"
  /\ UNCHANGED <<cams_built, cam_config, cam_lock, cam_pc, cam_ref, capturing>>
  /\ CamFrame

(* -------------------------- IMUSensorFusion --------------------------- *)

ImuFrame == UNCHANGED <<ctlVars, drvVars, autoVars, turnVars, obsVars,
                        serialVars, gpioVars, camVars, cfgVars, streamVars>>

\* the outer except clause: connected = False, construction is over
ImuInitFails ==
  /\ imu_connected' = FALSE
  /\ imu_pc' = "done"

\* self.bus = smbus2.SMBus(bus_num)
ImuOpenBus(ok) ==
  /\ imu_pc = "new"
  /\ IF ok THEN imu_pc' = "verify" /\ UNCHANGED imu_connected
           ELSE ImuInitFails
  /\ UNCHANGED <<imu_attempt, who_reads, read_error_count, exhausted_run>>
  /\ ImuFrame

\* one pass of `for attempt in range(max_retries)`: 0x68 breaks out of the
\* loop, another value is logged, a read error raises on the last attempt
\* only; a loop that runs out falls through to the wake-up
ImuReadIdentity(v) ==
  /\ imu_pc = "verify"
  /\ imu_attempt < max_retries
  /\ who_reads' = Append(who_reads, v)
  /\ IF v = MPU_ID
       THEN /\ imu_pc' = "config"
            /\ UNCHANGED <<imu_attempt, imu_connected>>
       ELSE IF v = ReadError /\ imu_attempt = max_retries - 1
         THEN /\ ImuInitFails
              /\ UNCHANGED imu_attempt
         ELSE /\ imu_attempt' = imu_attempt + 1
              /\ imu_pc' = IF imu_attempt + 1 = max_retries THEN "config" ELSE "verify"
              /\ UNCHANGED imu_connected
  /\ UNCHANGED <<read_error_count, exhausted_run>>
  /\ ImuFrame

\* wake-up, gyro and accelerometer configuration, temperature read, then
\* connected = True (ok: none of the bus accesses raised)
ImuConfigure(ok) ==
  /\ imu_pc = "config"
  /\ IF ok THEN imu_connected' = TRUE /\ imu_pc' = "calibrate"
           ELSE ImuInitFails
  /\ UNCHANGED <<imu_attempt, who_reads, read_error_count, exhausted_run>>
  /\ ImuFrame

\* _calibrate() (ok: it returned without raising and its reads did not
\* declare the connection lost)
ImuCalibrate(ok) ==
  /\ imu_pc = "calibrate"
  /\ IF ok THEN imu_pc' = "done" /\ UNCHANGED imu_connected
           ELSE ImuInitFails
  /\ UNCHANGED <<imu_attempt, who_reads, read_error_count, exhausted_run>>
  /\ ImuFrame

\* _read_word_safe(reg) on a constructed IMU.  fails: the attempts that
\* raised before one succeeded (ReadRetries: all of them, the read is
\* exhausted and returns 0); stale: the last successful read is older than
\* CONNECTION_TIMEOUT when _check_connection looks
ImuReadWord(fails, stale) ==
  /\ imu_pc = "done"
  /\ read_error_count + ReadRetries <= ReadErrorCap
  /\ IF fails < ReadRetries
       THEN /\ read_error_count' = 0
            /\ exhausted_run' = 0
            /\ UNCHANGED imu_connected
       ELSE /\ read_error_count' = read_error_count + ReadRetries
            /\ exhausted_run' = exhausted_run + 1
            /\ imu_connected' =
                 IF read_error_count + ReadRetries >= MAX_READ_ERRORS \/ stale
                   THEN FALSE ELSE imu_connected
  /\ UNCHANGED <<imu_pc, imu_attempt, who_reads>>
  /\ ImuFrame

(* ------------------------- dashboard routes --------------------------- *)

\* what follow_controller.stop() does to the drivetrain: it may or may not
\* command a driver stop
FollowStopEffects == BOOLEAN

\* GET /set_mode?mode=m with no auto loop thread alive and a shared camera
\* that cannot be started: validation, RobotController.set_mode, then
\* auto: auto_controller.start() (returns False at _init_shared_camera) and
\*       follow_controller.stop();
\* manual: auto_controller.stop() (no thread to join, driver.stop()) and
\*       follow_controller.stop();
\* follow: never reached, set_mode has refused it.
RouteSetMode(m, follow_stops) ==
  /\ ~running /\ loop_pc = "dead" /\ stop_pc = "idle"
  /\ IF m \notin DashboardModes
       THEN /\ last_call' = <<"set_mode_route", FALSE>>
            /\ UNCHANGED <<current_mode, current_state, left_speed, right_speed>>
       ELSE IF m \notin SupportedModes
         THEN /\ last_call' = <<"set_mode", FALSE>>
              /\ UNCHANGED <<current_mode, current_state, left_speed, right_speed>>
         ELSE /\ current_mode' = m
              /\ current_state' = ModeLabel(m)
              /\ last_call' = <<"set_mode", TRUE>>
              /\ IF m = "manual" \/ follow_stops
                   THEN Drive(DrvStop)
                   ELSE UNCHANGED <<left_speed, right_speed>>
  /\ UNCHANGED <<current_speed, emergency_stopped, last_command_age,
                 autoVars, turnVars, watchdog_fired, serialVars, hwVars>>

(* --------------------------- specification ---------------------------- *)

\* the state after RobotController and AutoModeController are constructed
InitController ==
  /\ current_mode = "manual"
  /\ current_state = "IDLE"
  /\ current_speed = DefaultSpeed
  /\ emergency_stopped = FALSE
  /\ last_command_age = 0
  /\ left_speed = 0 /\ right_speed = 0
  /\ running = FALSE
  /\ loop_pc = "dead"
  /\ default_speed \in BaseSpeeds
  /\ base_speed = default_speed
  /\ lane_lost_count = 0
  /\ recovery_mode = FALSE
  /\ recovery_direction = "left"
  /\ recovery_scan_time = 0
  /\ recovery_attempts = 0
  /\ stop_pc = "idle"
  /\ turn_target = 0 /\ turn_elapsed = 0 /\ stuck_counter = 0
  /\ last_yaw = 0 /\ turn_speed = 0
  /\ last_call = <<"none", TRUE>>
  /\ watchdog_fired = FALSE

\* the serial driver is not part of Spec
SerialUnused ==
  /\ connected = FALSE /\ serial = "none" /\ read_thread = FALSE
  /\ mcu = "silent" /\ tx = <<>> /\ rx = 0 /\ conn_pc = "new"
  /\ last_drv_call = <<"none">>

\* a freshly constructed L298NDriver with reverse flags as configured
GpioNew(reverses) ==
  /\ current_left_speed = 0 /\ current_right_speed = 0
  /\ left_value = 0 /\ right_value = 0
  /\ left_reverse \in reverses /\ right_reverse \in reverses

\* the hardware components that are not part of the specification at hand
\* the camera_manager module as imported: no instance, nobody using it
CamNew ==
  /\ web_camera_instance = 0 /\ web_camera_lock = "free"
  /\ cams_built = 0 /\ built_in_epoch = 0
  /\ cam_config = [i \in CamIds |-> "none"]
  /\ cam_running = [i \in CamIds |-> FALSE]
  /\ cam_device = [i \in CamIds |-> FALSE]
  /\ dev_open = [i \in CamIds |-> 0]
  /\ cam_lock = [i \in CamIds |-> "free"]
  /\ cam_pc = [t \in CamThreads |-> "idle"]
  /\ cam_ref = [t \in CamThreads |-> 0]
  /\ capturing = {}
  /\ rel_pc = "idle"
  /\ streaming = FALSE
  /\ gen = [c \in Clients |-> "none"]
  /\ frames = [c \in Clients |-> 0]

\* IMUSensorFusion.__init__ up to the call of _init_hardware
ImuNew ==
  /\ imu_pc = "new" /\ imu_attempt = 0 /\ who_reads = <<>>
  /\ imu_connected = FALSE
  /\ read_error_count = 0 /\ exhausted_run = 0

HwIdle ==
  /\ GpioNew({FALSE})
  /\ CamNew
  /\ ImuNew
  /\ detection_config = LaneKeys
  /\ default_speed = DefaultBaseSpeed

Init == InitController /\ SerialUnused /\ HwIdle

\* RobotController under the operator's commands, with its watchdog
Next ==
  \/ Forward
  \/ Backward
  \/ Left
  \/ Right
  \/ Stop
  \/ EmergencyStop
  \/ ResetEmergency
  \/ \E v \in SpeedInputs : SetSpeed(v)
  \/ \E m \in ModeInputs : SetMode(m)
  \/ Tick
  \/ Watchdog

Spec == Init /\ [][Next]_vars

\* AutoModeController: its loop thread against start/stop, mode changes and
\* the emergency stop
NextAuto ==
  \/ EmergencyStop
  \/ ResetEmergency
  \/ \E m \in ModeInputs : SetMode(m)
  \/ \E ok \in BOOLEAN : AutoStart(ok)
  \/ AutoStopBegin
  \/ AutoStopEnd
  \/ LoopTop
  \/ LoopNoFrame
  \/ LoopFrameRaises
  \/ \E sg \in SignNames \cup {"none"}, sz \in SignSizes, e \in LaneErrors,
        c \in Corrections : LoopBody(sg, sz, e, c)
  \/ \E imu \in BOOLEAN : TurnEntry(imu)
  \/ TurnFallbackEnd
  \/ \E y \in YawSamples, r \in BOOLEAN : TurnCheck(y, r)
  \/ TurnCmd

SpecAuto == Init /\ [][NextAuto]_vars

\* the operator at the dashboard: every route that reaches the controller,
\* with the watchdog thread running; every request sent is eventually served
NextDash ==
  \/ Forward
  \/ Backward
  \/ Left
  \/ Right
  \/ Stop
  \/ EmergencyStop
  \/ \E v \in SpeedInputs : SetSpeed(v)
  \/ \E m \in ModeInputs, fs \in FollowStopEffects : RouteSetMode(m, fs)
  \/ Tick
  \/ Watchdog

DashFairness ==
  /\ WF_vars(Forward)
  /\ WF_vars(Backward)
  /\ WF_vars(Left)
  /\ WF_vars(Right)
  /\ WF_vars(Stop)
  /\ WF_vars(\E v \in SpeedInputs : SetSpeed(v))
  /\ WF_vars(\E m \in ModeInputs, fs \in FollowStopEffects : RouteSetMode(m, fs))
  /\ WF_vars(Tick)
  /\ WF_vars(Watchdog)

SpecDash == Init /\ [][NextDash]_vars /\ DashFairness

\* a freshly constructed ArduinoDriver, before its constructor's connect(),
\* facing a microcontroller that answers PINGs or one that never replies
InitSerial ==
  /\ InitController
  /\ connected = FALSE /\ serial = "none" /\ read_thread = FALSE
  /\ mcu \in {"echo", "silent"} /\ tx = <<>> /\ rx = 0 /\ conn_pc = "new"
  /\ last_drv_call = <<"none">>
  /\ HwIdle

NextSerial ==
  \/ \E ok \in BOOLEAN : Connect(ok)
  \/ \E l \in MotorInputs, r \in MotorInputs : SetMotors(l, r)
  \/ \E s \in SerialSpeeds : SerialForward(s)
  \/ \E s \in SerialSpeeds : SerialBackward(s)
  \/ \E s \in SerialSpeeds : SerialTurnLeft(s)
  \/ \E s \in SerialSpeeds : SerialTurnRight(s)
  \/ SerialStop
  \/ Disconnect
  \/ McuSendsLine
  \/ \E cmd \in {<<"PING">>, <<"STATUS">>} : SendCommandCall(cmd)

SpecSerial == InitSerial /\ [][NextSerial]_vars

\* L298NDriver under its motion commands
InitGpio ==
  /\ InitController /\ SerialUnused /\ GpioNew(BOOLEAN) /\ CamNew /\ ImuNew
  /\ detection_config = LaneKeys
  /\ default_speed = DefaultBaseSpeed

NextGpio ==
  \/ \E l \in MotorInputs, r \in MotorInputs : GpioSetMotors(l, r)
  \/ \E s \in GpioSpeeds : GpioForward(s)
  \/ \E s \in GpioSpeeds : GpioBackward(s)
  \/ \E s \in GpioSpeeds : GpioTurnLeft(s)
  \/ \E s \in GpioSpeeds : GpioTurnRight(s)
  \/ GpioStop

SpecGpio == InitGpio /\ [][NextGpio]_vars

\* the shared camera: the stream handler and the auto controller getting,
\* starting and reading it, and release_web_camera at shutdown
InitCam == InitController /\ SerialUnused /\ HwIdle

NextCam ==
  \/ \E t \in CamThreads : GetAcquire(t)
  \/ \E t \in CamThreads : GetCheck(t)
  \/ \E t \in CamThreads, cfg \in Configs : GetBuild(t, cfg)
  \/ \E t \in CamThreads : IsRunning(t)
  \/ \E t \in CamThreads, ok \in BOOLEAN : StartOpen(t, ok)
  \/ \E t \in CamThreads : StartTestBegin(t)
  \/ \E t \in CamThreads, ok \in BOOLEAN : StartTestEnd(t, ok)
  \/ \E t \in CamThreads : CaptureBegin(t)
  \/ \E t \in CamThreads : CaptureEnd(t)
  \/ \E t \in CamThreads : CallerDone(t)
  \/ ReleaseAcquire
  \/ ReleaseBody

SpecCam == InitCam /\ [][NextCam]_vars

\* the auto loop following the lane under a loaded configuration whose
\* lane-detection section may be incomplete
InitLane ==
  /\ InitController /\ SerialUnused /\ GpioNew({FALSE}) /\ CamNew /\ ImuNew
  /\ detection_config \in LaneConfigs
  /\ default_speed = DefaultBaseSpeed

NextLane ==
  \/ \E ok \in BOOLEAN : AutoStart(ok)
  \/ AutoStopBegin
  \/ AutoStopEnd
  \/ LoopTop
  \/ LoopNoFrame
  \/ \E e \in LaneErrors, c \in Corrections : LoopLaneFrame(e, c)

SpecLane == InitLane /\ [][NextLane]_vars

\* the auto loop under a configured base speed, meeting green-light and
\* speed-limit signs
InitSpeed ==
  /\ InitController /\ SerialUnused /\ GpioNew({FALSE}) /\ CamNew /\ ImuNew
  /\ detection_config = LaneKeys
  /\ default_speed \in BaseSpeeds

NextSpeed ==
  \/ \E ok \in BOOLEAN : AutoStart(ok)
  \/ AutoStopBegin
  \/ AutoStopEnd
  \/ LoopTop
  \/ LoopNoFrame
  \/ \E sg \in SpeedSigns \cup {"none"}, sz \in SignSizes, e \in LaneErrors,
        c \in Corrections : LoopBody(sg, sz, e, c)

SpecSpeed == InitSpeed /\ [][NextSpeed]_vars

\* construction of the IMU against a bus and a device that may misbehave
NextImu ==
  \/ \E ok \in BOOLEAN : ImuOpenBus(ok)
  \/ \E v \in WhoAmIReads : ImuReadIdentity(v)
  \/ \E ok \in BOOLEAN : ImuConfigure(ok)
  \/ \E ok \in BOOLEAN : ImuCalibrate(ok)
  \/ \E f \in 0..ReadRetries, st \in BOOLEAN : ImuReadWord(f, st)

SpecImu == Init /\ [][NextImu]_vars

\* smart_turn(target_angle, speed) called with any requested speed; the
\* caller is not the auto-loop thread, so loop_pc is not involved.
\* One iteration of the IMU loop that gets as far as the turn command: the
\* entry clamp, then none of the exits taken at this yaw, then the adaptive
\* speed and turn_left/turn_right
SmartTurnStep(target, speed, yaw) ==
  /\ ~emergency_stopped /\ Abs(target) <= 180
  /\ LET error == Abs(target) - Abs(yaw)
     IN /\ error > 2
        /\ ~(target > 0 /\ yaw > target + 5)
        /\ ~(target < 0 /\ yaw < target - 5)
        /\ turn_speed' = AdaptiveSpeed(ClampTurnSpeed(speed), error)
  /\ turn_target' = target /\ last_yaw' = yaw
  /\ Drive(TurnCommand(target, turn_speed'))
  /\ UNCHANGED <<ctlVars, autoVars, turn_elapsed, stuck_counter, obsVars,
                 serialVars, hwVars>>

\* the same call without an IMU: _fallback_turn's command at the clamped speed
FallbackTurnStep(target, speed) ==
  /\ ~emergency_stopped /\ Abs(target) <= 180
  /\ turn_speed' = ClampTurnSpeed(speed)
  /\ turn_target' = target
  /\ Drive(TurnCommand(target, turn_speed'))
  /\ UNCHANGED <<ctlVars, autoVars, turn_elapsed, stuck_counter, last_yaw,
                 obsVars, serialVars, hwVars>>

\* requested speeds: every multiple of 10 from 0 to 300
NextTurn ==
  \/ \E t \in TurnAngles, k \in 0..30, y \in YawSamples : SmartTurnStep(t, 10 * k, y)
  \/ \E t \in TurnAngles, k \in 0..30 : FallbackTurnStep(t, 10 * k)

SpecTurn == Init /\ [][NextTurn]_vars

\* The MJPEG stream: every /video_feed request gets its own generator over
\* the one shared StreamingCameraManager, whose camera the route has started.
StreamFrame == UNCHANGED <<ctlVars, drvVars, autoVars, turnVars, obsVars,
                           serialVars, gpioVars, camVars, imuVars, cfgVars>>

\* generate_frames() begins for a new request of client c: start_streaming()
GenStart(c) ==
  /\ gen[c] # "run"
  /\ streaming' = TRUE
  /\ gen' = [gen EXCEPT ![c] = "run"]
  /\ frames' = [frames EXCEPT ![c] = 0]
  /\ StreamFrame

\* one pass of `while self.streaming` that yields a frame to client c
GenYield(c) ==
  /\ gen[c] = "run" /\ streaming
  /\ frames[c] < MaxFrames
  /\ frames' = [frames EXCEPT ![c] = frames[c] + 1]
  /\ UNCHANGED <<streaming, gen>>
  /\ StreamFrame

\* the while test finds the flag cleared: the generator of client c falls
\* out of the loop, calls stop_streaming() and ends
GenLoopEnds(c) ==
  /\ gen[c] = "run" /\ ~streaming
  /\ streaming' = FALSE
  /\ gen' = [gen EXCEPT ![c] = "ended"]
  /\ UNCHANGED frames
  /\ StreamFrame

\* client c disconnects: GeneratorExit at the yield, break, stop_streaming()
ClientDisconnects(c) ==
  /\ gen[c] = "run"
  /\ streaming' = FALSE
  /\ gen' = [gen EXCEPT ![c] = "closed"]
  /\ UNCHANGED frames
  /\ StreamFrame

NextStream ==
  \/ \E c \in Clients : GenStart(c)
  \/ \E c \in Clients : GenYield(c)
  \/ \E c \in Clients : GenLoopEnds(c)
  \/ \E c \in Clients : ClientDisconnects(c)

SpecStream == Init /\ [][NextStream]_vars

(* ------------------------------ claims -------------------------------- *)

ManualNames == {"forward", "backward", "left", "right"}

\* C1: while emergency_stopped is set, forward(), backward(), left() and
\* right() return False and leave the driver's commanded wheel speeds as they
\* were, whatever the mode.
C1_EmergencyBlocksManual ==
  [][(emergency_stopped /\ (Forward \/ Backward \/ Left \/ Right))
       => (/\ last_call'[1] \in ManualNames
           /\ last_call'[2] = FALSE
           /\ left_speed' = left_speed
           /\ right_speed' = right_speed)]_vars

\* a motion command was refused in manual mode with the emergency flag set
C1_Witness ==
  /\ emergency_stopped
  /\ current_mode = "manual"
  /\ last_call = <<"forward", FALSE>>

\* C2: in manual mode, when the last accepted command was forward and more
\* than the timeout has passed without a further command, the watchdog's
\* iteration leaves both wheel speeds at 0 and the state label IDLE.
C2_WatchdogStops ==
  [][(/\ Watchdog
      /\ current_mode = "manual"
      /\ last_call = <<"forward", TRUE>>
      /\ last_command_age > Timeout)
       => (Stopped' /\ current_state' = "IDLE")]_vars

\* the watchdog force-stopped a robot that an accepted forward() had moving
C2_Witness ==
  /\ current_mode = "manual"
  /\ last_call = <<"forward", TRUE>>
  /\ watchdog_fired
  /\ Stopped
  /\ current_state = "IDLE"

\* C3: connect() on a port that opens: when the microcontroller answers the
\* PING with status ok the driver ends connected with its read thread
\* running, and when no reply arrives it ends disconnected with no read
\* thread.
C3_ConnectHandshake ==
  (conn_pc = "done" /\ serial = "open")
    => IF mcu = "echo" THEN connected /\ read_thread
       ELSE ~connected /\ ~read_thread

\* C4: once emergency_stop() has been called in auto mode and the loop thread
\* is between iterations (or gone) with no stop() pending, the wheels are
\* stopped: no iteration that was in flight has left them moving.
C4_EmergencyStopsAutoLoop ==
  (/\ emergency_stopped
   /\ current_mode = "auto"
   /\ loop_pc \in {"top", "dead"}
   /\ stop_pc = "idle")
    => Stopped

\* C5: while emergency_stopped stays set, auto mode is not activated: the
\* mode does not become auto and no loop thread is launched.
C5_EmergencyBlocksAutoActivation ==
  [][(emergency_stopped /\ emergency_stopped')
       => (/\ current_mode' = "auto" => current_mode = "auto"
           /\ loop_pc = "dead" => loop_pc' = "dead")]_vars

\* C6: smart_turn terminates within its timeout however the yaw readings
\* evolve (its loop never runs more than one iteration past the timeout),
\* and the step by which it returns after commanding a turn leaves the
\* wheels stopped.
C6_SmartTurnTerminatesStopped ==
  /\ [](loop_pc \in {"turn_check", "turn_cmd"} => turn_elapsed <= TurnTimeout + 1)
  /\ [][(loop_pc \in {"turn_check", "turn_cmd", "turn_fb"} /\ loop_pc' \notin TurnPcs)
          => Stopped']_vars

\* the turn loop has used up its timeout without the yaw reaching the target
C6_Witness ==
  /\ loop_pc = "turn_check"
  /\ turn_elapsed > TurnTimeout
  /\ ~Stopped
  /\ Abs(turn_target) - Abs(last_yaw) > 2

\* an iteration of the auto loop that reaches lane detection on a frame whose
\* lane error is beyond MAX_ERROR_THRESHOLD
InvalidLaneIteration ==
  /\ loop_pc = "frame"
  /\ loop_pc' = "top"
  /\ \E sg \in SignNames \cup {"none"}, sz \in SignSizes,
        e \in {x \in LaneErrors : Abs(x) > MAX_ERROR_THRESHOLD},
        c \in Corrections :
          /\ sg = "none" \/ sz < DIST_EXECUTE
               \/ sg \in {"green_light", "speed_limit_signs"}
          /\ LoopBody(sg, sz, e, c)

\* C7: an iteration on an invalid lane reading that brings lane_lost_count to
\* lane_lost_threshold or more runs recovery: it commands a scan turn at
\* recovery_scan_speed in the scan direction, or gives up (stopped, RECOVERY
\* FAILED) after recovery_max_attempts; the scan direction flips exactly when
\* the accumulated scan time reaches recovery_max_scan_time; below the
\* threshold the iteration stops the wheels and no recovery is started.
C7_RecoveryScan ==
  [][InvalidLaneIteration =>
       LET d0 == IF recovery_mode THEN recovery_direction ELSE "left"
           s0 == IF recovery_mode THEN recovery_scan_time ELSE 0
       IN IF lane_lost_count' >= lane_lost_threshold
            THEN /\ \/ /\ recovery_mode'
                       /\ <<left_speed', right_speed'>> =
                            IF recovery_direction' = "left"
                              THEN <<-recovery_scan_speed, recovery_scan_speed>>
                              ELSE <<recovery_scan_speed, -recovery_scan_speed>>
                    \/ /\ ~recovery_mode'
                       /\ recovery_attempts' >= recovery_max_attempts
                       /\ Stopped'
                       /\ current_state' = "RECOVERY FAILED"
                 /\ IF s0 + 1 >= ScanSteps
                      THEN recovery_direction' # d0 /\ recovery_scan_time' = 0
                      ELSE recovery_direction' = d0 /\ recovery_scan_time' = s0 + 1
            ELSE /\ Stopped'
                 /\ UNCHANGED <<recovery_mode, recovery_direction,
                                recovery_scan_time, recovery_attempts>>]_vars

\* recovery has scanned left, then right, and is scanning left again
C7_Witness ==
  /\ recovery_mode
  /\ recovery_attempts = 1
  /\ recovery_direction = "left"
  /\ current_state = "SCAN LEFT"
  /\ left_speed = -recovery_scan_speed /\ right_speed = recovery_scan_speed

\* C8: the step by which the auto-loop thread ends, whether by the running
\* flag, by an exception or by the parking sign, leaves the wheels stopped.
C8_LoopExitStops ==
  [][(loop_pc # "dead" /\ loop_pc' = "dead") => Stopped']_vars

\* the loop thread died on an exception (running still set) after it had
\* been following the lane
C8_Witness ==
  /\ loop_pc = "dead"
  /\ running
  /\ current_state = "FOLLOWING LANE"
  /\ Stopped

\* C9: after stop() has returned (running cleared, no stop() in progress)
\* a loop thread that is still alive issues no further non-zero motor
\* command.
C9_NoCommandAfterStop ==
  [][(~running /\ stop_pc = "idle" /\ loop_pc # "dead")
       => (Stopped' \/ UNCHANGED drvVars)]_vars

\* C10: on a driver whose port opened to a microcontroller that answers,
\* set_motors(left, right) stores and transmits each speed clamped to
\* [-255, 255]: get_speeds() and the MOVE command both carry the clamps.
C10_SetMotorsClamps ==
  (/\ conn_pc = "done" /\ serial = "open" /\ mcu = "echo"
   /\ last_drv_call[1] = "set_motors")
    => LET l == ClampPwm(last_drv_call[2])
           r == ClampPwm(last_drv_call[3])
       IN /\ left_speed = l /\ right_speed = r
          /\ tx # <<>>
          /\ tx[Len(tx)] = <<"MOVE", l, r>>

\* C11: after any motion command of the direct GPIO driver the speeds
\* returned by get_speeds() lie within [-255, 255] and agree with the value
\* applied to each motor (its sign undone when the motor is configured
\* reversed).
C11_GpioStoresClamped ==
  /\ Abs(current_left_speed) <= MaxPwm
  /\ Abs(current_right_speed) <= MaxPwm
  /\ current_left_speed = (IF left_reverse THEN -left_value ELSE left_value)
  /\ current_right_speed = (IF right_reverse THEN -right_value ELSE right_value)

\* a motion command of the serial driver
SerialMotion ==
  \/ \E l \in MotorInputs, r \in MotorInputs : SetMotors(l, r)
  \/ \E s \in SerialSpeeds :
       SerialForward(s) \/ SerialBackward(s) \/ SerialTurnLeft(s) \/ SerialTurnRight(s)
  \/ SerialStop

\* C12: while the serial driver is not connected, a motion command writes
\* nothing to the port and leaves the speeds reported by get_speeds() as
\* they were.
C12_DisconnectedNoOp ==
  [][(~connected /\ SerialMotion)
       => UNCHANGED <<tx, left_speed, right_speed>>]_vars

\* C13: at most one StreamingCameraManager is constructed between releases;
\* every get_web_camera() call returns the instance current at its return
\* and, when one exists, neither replaces nor reconfigures it whatever
\* config it was passed; release_web_camera() stops and discards the
\* instance; the instance built after a release is a fresh one.
C13_SingletonCamera ==
  /\ [](built_in_epoch <= 1)
  /\ [][\A t \in CamThreads :
          (cam_pc[t] \in {"get_check", "get_build"} /\ cam_pc'[t] = "is_running")
            => /\ cam_ref'[t] = web_camera_instance'
               /\ web_camera_instance' # 0
               /\ web_camera_instance # 0
                    => /\ web_camera_instance' = web_camera_instance
                       /\ cam_config' = cam_config]_vars
  /\ [][(rel_pc = "in_release" /\ rel_pc' = "idle")
          => /\ web_camera_instance' = 0
             /\ web_camera_instance # 0
                  => /\ ~cam_running'[web_camera_instance]
                     /\ ~cam_device'[web_camera_instance]]_vars
  /\ [][(web_camera_instance = 0 /\ web_camera_instance' # 0)
          => web_camera_instance' > cams_built]_vars

\* after a release, both callers hold the one fresh instance, which kept
\* the config of the call that built it
C13_Witness ==
  /\ web_camera_instance = 2
  /\ cam_ref["stream"] = 2 /\ cam_ref["auto"] = 2
  /\ cam_pc["stream"] = "loop" /\ cam_pc["auto"] = "loop"
  /\ built_in_epoch = 1

\* C14: a camera manager never has more than one camera session open,
\* however the /video_feed handler and AutoModeController.start()
\* interleave their is_running() checks and start() calls.
C14_CameraOpenedOnce ==
  \A i \in CamIds : dev_open[i] <= 1

\* C15: at no time are two threads inside the camera's capture_array.
C15_CaptureSerialized ==
  Cardinality(capturing) <= 1

\* C17: set_mode(mode) changes the mode, updates the state label and returns
\* true exactly when mode is one of manual, auto, follow (the modes the
\* dashboard route accepts); for any other value it returns false and leaves
\* mode and state label unchanged.
C17_SetModeAcceptsDashboardModes ==
  [][\A m \in ModeInputs :
       SetMode(m) =>
         IF m \in DashboardModes
           THEN /\ current_mode' = m
                /\ current_state' = ModeLabel(m)
                /\ last_call' = <<"set_mode", TRUE>>
           ELSE /\ UNCHANGED <<current_mode, current_state>>
                /\ last_call' = <<"set_mode", FALSE>>]_vars

\* C16: the emergency-stopped state is recoverable through the dashboard:
\* from any state with emergency_stopped set, the dashboard's requests lead
\* to a state where the flag is cleared and manual motion commands are
\* accepted again.
C16_EmergencyRecoverable ==
  emergency_stopped ~> (~emergency_stopped /\ CheckManualMode)

\* C18: smart_turn is interruptible by the emergency-stop flag: an iteration
\* of the IMU-guided loop whose check finds emergency_stopped set leaves the
\* loop, issues no turn command, and smart_turn returns with the driver
\* stopped; a turn command is only ever issued by an iteration whose check
\* has passed.
C18_TurnInterruptible ==
  /\ [][(loop_pc = "turn_check" /\ emergency_stopped /\ loop_pc' # "turn_check")
         => (loop_pc' = "top" /\ Stopped' /\ turn_target' = 0)]_vars
  /\ [][(loop_pc = "turn_check" /\ <<left_speed', right_speed'>> # <<left_speed, right_speed>>)
         => (Stopped' /\ loop_pc' \in {"top", "turn_check"})]_vars

\* the flag is raised in the middle of a turn whose commands have the wheels
\* turning, and the loop stands at its per-iteration check
C18_Witness ==
  /\ emergency_stopped
  /\ loop_pc = "turn_check"
  /\ turn_elapsed > 0
  /\ ~Stopped

\* C19: with the IMU absent or disconnected at call time, smart_turn with a
\* valid angle takes the time-based fallback: it never enters the IMU loop,
\* issues exactly one turn command, left for a positive target and right
\* for a negative one, holds it for a time proportional to |target_angle|,
\* and then stops the driver and returns.
C19_FallbackTurn ==
  /\ [][(TurnEntry(FALSE) /\ ~emergency_stopped /\ Abs(turn_target) <= 180)
         => /\ loop_pc' = "turn_fb"
            /\ <<left_speed', right_speed'>> =
                 (IF turn_target > 0 THEN <<-SmartTurnSpeed, SmartTurnSpeed>>
                  ELSE <<SmartTurnSpeed, -SmartTurnSpeed>>)]_vars
  /\ [][loop_pc = "turn_fb"
         => /\ loop_pc' \in {"turn_fb", "top"}
            /\ (loop_pc' = "top" => Stopped')
            /\ (<<left_speed', right_speed'>> # <<left_speed, right_speed>> => Stopped')]_vars
  /\ [](\A a \in TurnAngles : FallbackDuration(a) * 90 = 600 * Abs(a))
  /\ [](\A a, b \in TurnAngles :
          Abs(a) < Abs(b) => FallbackDuration(a) < FallbackDuration(b))

\* a right turn (negative target) held by the fallback
C19_Witness ==
  /\ loop_pc = "turn_fb"
  /\ turn_target < 0
  /\ left_speed = SmartTurnSpeed
  /\ right_speed = -SmartTurnSpeed

\* C20: IMU initialization is gated on the identity check: construction
\* ends with connected = true only if one of the (up to 3) identity reads
\* returned 0x68; if every attempt fails, by read error or by a different
\* value, initialization fails and connected is false.
C20_IdentityGatesInit ==
  (imu_pc = "done" /\ imu_connected)
    => \E i \in 1..Len(who_reads) : who_reads[i] = MPU_ID

\* C21: the consecutive-error counter goes up by one for each register read
\* that exhausted its retries and is reset by a successful read; the device
\* is marked disconnected by a read exactly when the counter reaches 5,
\* that is, at the fifth read in a row that exhausted its retries.
C21_ErrorCounter ==
  [][\A f \in 0..ReadRetries :
       ImuReadWord(f, FALSE) =>
         /\ read_error_count' = (IF f < ReadRetries THEN 0 ELSE read_error_count + 1)
         /\ (imu_connected /\ ~imu_connected')
               <=> (imu_connected /\ f = ReadRetries /\ exhausted_run' = MAX_READ_ERRORS)]_vars

\* C22: every lane-detection configuration field has a fallback: with the
\* ai.lane_detection section absent or lacking keys, lane detection runs
\* with defaults; an iteration on a captured frame never ends the auto loop.
C22_ConfigFallback ==
  [][(loop_pc = "frame" /\ running) => loop_pc' # "dead"]_vars

\* C23: in an auto-loop iteration no sign-triggered action (driver stop,
\* smart turn, base-speed change, parking shutdown) is taken unless the
\* selected detection has size >= DIST_EXECUTE; below DIST_PREPARE and in
\* the prepare band only the state label is written and lane following
\* proceeds: a valid lane reading is answered by the PID-mixed set_motors
\* at the unchanged base speed.
C23_NoActionBelowExecute ==
  [][(loop_pc = "frame" /\ loop_pc' # "frame") =>
     \A sz \in {z \in SignSizes : z < DIST_EXECUTE}, e \in LaneErrors,
        c \in Corrections :
       \/ /\ base_speed' = base_speed
          /\ running' = running
          /\ loop_pc' = "top"
          /\ UNCHANGED turnVars
          /\ (Abs(e) <= MAX_ERROR_THRESHOLD =>
                /\ <<left_speed', right_speed'>> = MixSpeeds(base_speed, c)
                /\ current_state' = (IF sz < DIST_PREPARE THEN "DETECTED"
                                     ELSE "PREPARE"))
       \/ \A sg \in SignNames : ~LoopBody(sg, sz, e, c)]_vars

\* a sign in the prepare band was seen and the lane was followed
C23_Witness ==
  /\ current_state = "PREPARE"
  /\ loop_pc = "top"
  /\ running
  /\ <<left_speed, right_speed>> = MixSpeeds(base_speed, 30)

\* C24: when the selected sign is a parking sign at or beyond DIST_EXECUTE,
\* the driver is stopped, the running flag is cleared and the loop thread
\* ends without processing a further frame; a later start() with a working
\* camera launches a new loop.
C24_ParkingShutsDown ==
  /\ [][(loop_pc = "frame" /\ loop_pc' # "frame") =>
        \A sz \in {z \in SignSizes : z >= DIST_EXECUTE}, e \in LaneErrors,
           c \in Corrections :
          LoopBody("parking_signs", sz, e, c)
            => (Stopped' /\ ~running' /\ loop_pc' = "dead")]_vars
  /\ [][(~running /\ loop_pc = "dead" /\ AutoStart(TRUE))
          => (running' /\ loop_pc' = "top")]_vars
  /\ [][loop_pc = "dead" => (loop_pc' = "dead" \/ (running' /\ loop_pc' = "top"))]_vars

\* the loop has shut itself down in auto mode: no stop() is pending, the
\* flag is clear, the thread is gone and the driver is stopped
C24_Witness ==
  /\ ~running /\ loop_pc = "dead" /\ stop_pc = "idle"
  /\ current_mode = "auto" /\ ~emergency_stopped
  /\ Stopped

\* C25: handling a speed-limit sign reduces the base speed to the fixed
\* lower value: afterwards base_speed is SpeedLimitSpeed and not greater
\* than before the sign, for any configured default; a later green-light
\* sign or a new start() restores the configured default.
C25_SpeedLimitReduces ==
  [][(loop_pc = "frame" /\ loop_pc' # "frame") =>
     \A sz \in {z \in SignSizes : z >= DIST_EXECUTE}, e \in LaneErrors,
        c \in Corrections :
       /\ LoopBody("speed_limit_signs", sz, e, c)
            => (base_speed' = SpeedLimitSpeed /\ base_speed' <= base_speed)
       /\ LoopBody("green_light", sz, e, c) => base_speed' = default_speed]_vars

\* C26: after set_speed(v) the controller's speed s is min(255, max(0, v)),
\* and each accepted manual command drives the wheels at exactly
\* forward (s, s), backward (-s, -s), left (-t, t), right (t, -t) with
\* t = floor(0.8 * s), sets the state label and stamps the command time.
C26_ManualSpeeds ==
  /\ [][\A v \in SpeedInputs :
         SetSpeed(v) => current_speed' = Min(255, Max(0, v))]_vars
  /\ [](current_speed \in 0..255)
  /\ [][(CheckManualMode /\ Forward)
         => /\ left_speed' = current_speed /\ right_speed' = current_speed
            /\ current_state' = "MOVING FORWARD" /\ last_command_age' = 0]_vars
  /\ [][(CheckManualMode /\ Backward)
         => /\ left_speed' = -current_speed /\ right_speed' = -current_speed
            /\ current_state' = "MOVING BACKWARD" /\ last_command_age' = 0]_vars
  /\ [][(CheckManualMode /\ Left)
         => /\ left_speed' = -((4 * current_speed) \div 5)
            /\ right_speed' = (4 * current_speed) \div 5
            /\ current_state' = "TURNING LEFT" /\ last_command_age' = 0]_vars
  /\ [][(CheckManualMode /\ Right)
         => /\ left_speed' = (4 * current_speed) \div 5
            /\ right_speed' = -((4 * current_speed) \div 5)
            /\ current_state' = "TURNING RIGHT" /\ last_command_age' = 0]_vars

\* a left turn at speed 127: the wheels turn at floor(101.6) = 101
C26_Witness ==
  /\ current_speed = 127
  /\ left_speed = -101 /\ right_speed = 101
  /\ current_state = "TURNING LEFT"
  /\ last_call = <<"left", TRUE>>

\* C27: a manual motion command issued while the controller is not in
\* manual mode is rejected by the guard: it returns false, issues no driver
\* command and leaves the state label, the last-command time and the
\* commanded wheel speeds unchanged.
C27_NonManualRejected ==
  [][(current_mode # "manual" /\ (Forward \/ Backward \/ Left \/ Right))
       => (/\ last_call'[1] \in ManualNames
           /\ last_call'[2] = FALSE
           /\ UNCHANGED <<left_speed, right_speed, current_state,
                          last_command_age>>)]_vars

\* a motion command was refused in auto mode with no emergency stop active
C27_Witness ==
  /\ current_mode = "auto"
  /\ ~emergency_stopped
  /\ last_call = <<"right", FALSE>>

\* C28: during lane recovery, each time the scan duration elapses without a
\* valid reading the scan direction switches and the attempt counter goes
\* up by one; recovery is declared failed (stopped, RECOVERY FAILED,
\* recovery off) as soon as the counter reaches recovery_max_attempts.
C28_AttemptPerScanPeriod ==
  [][(InvalidLaneIteration /\ lane_lost_count' >= lane_lost_threshold) =>
       LET d0 == IF recovery_mode THEN recovery_direction ELSE "left"
           s0 == IF recovery_mode THEN recovery_scan_time ELSE 0
           a0 == IF recovery_mode THEN recovery_attempts ELSE 0
       IN IF s0 + 1 >= ScanSteps
            THEN /\ recovery_direction' # d0
                 /\ recovery_attempts' = a0 + 1
                 /\ (recovery_attempts' >= recovery_max_attempts)
                      <=> (~recovery_mode' /\ Stopped'
                           /\ current_state' = "RECOVERY FAILED")
            ELSE /\ recovery_direction' = d0
                 /\ recovery_attempts' = a0
                 /\ recovery_mode']_vars

\* C29: after a failed recovery (driver stopped, label RECOVERY FAILED,
\* recovery deactivated) lost-counting restarts from scratch: the next
\* invalid reading is the first of a new searching phase (count 1, wheels
\* stopped, SEARCHING) and recovery scanning stays off until the count has
\* climbed to lane_lost_threshold again.
C29_LostCountRestarts ==
  [][(InvalidLaneIteration /\ current_state = "RECOVERY FAILED" /\ ~recovery_mode)
       => (/\ lane_lost_count' = 1
           /\ ~recovery_mode'
           /\ Stopped'
           /\ current_state' = "SEARCHING")]_vars

\* C30: when neither lane side yields a position, detect_line reports the
\* sentinel 999, not the error 0 of a centred lane, and the auto loop treats
\* that reading as invalid: in an iteration that reaches lane detection
\* with it the lost counter is incremented and the wheels are stopped,
\* turned for a recovery scan or left alone, never given the PID mix.
C30_NoLaneIsInvalid ==
  /\ [](/\ DetectLineError(NoLaneSide, NoLaneSide) = NoLaneError
        /\ NoLaneError > MAX_ERROR_THRESHOLD
        /\ \A l, r \in {NoLaneSide, 0, 240, 480, 639} :
             (DetectLineError(l, r) = NoLaneError)
               <=> (l = NoLaneSide /\ r = NoLaneSide))
  /\ [][(loop_pc = "frame" /\ loop_pc' = "top") =>
        \A sg \in SignNames \cup {"none"}, sz \in SignSizes, c \in Corrections :
          \/ /\ lane_lost_count' = Min(lane_lost_count + 1, LostCap)
             /\ lane_lost_count' > 0
             /\ \/ Stopped'
                \/ UNCHANGED <<left_speed, right_speed>>
                \/ /\ recovery_mode'
                   /\ Abs(left_speed') = recovery_scan_speed
                   /\ right_speed' = -left_speed'
          \/ ~(/\ sg = "none" \/ sz < DIST_EXECUTE \/ sg \in SpeedSigns
               /\ LoopBody(sg, sz, NoLaneError, c))]_vars

\* the first iteration on a frame without lane sides: counted, wheels
\* stopped, searching
C30_Witness ==
  /\ lane_lost_count = 1
  /\ current_state = "SEARCHING"
  /\ Stopped
  /\ loop_pc = "top"
  /\ running

C32_ReadThreadOwnsInbound ==
  /\ [](rx > 0 => read_thread)
  /\ [][connected /\ rx' < rx => ~(\E cmd \in {<<"PING">>, <<"STATUS">>} : SendCommandCall(cmd))]_vars

\* C33: at most one auto-loop thread is alive at any time: every start()
\* that launches a loop thread finds no earlier loop thread alive, also
\* after a stop() whose bounded join timed out.
C33_SingleLoopThread ==
  [][(~running /\ running') => loop_pc = "dead"]_vars

\* C34: after the auto loop has ended on an internal exception the operator
\* can re-enable it: the running flag is never left set while no loop
\* thread is alive, so the next start() with a working camera launches a
\* new loop thread.
C34_RestartAfterFault ==
  /\ [](loop_pc = "dead" => ~running)
  /\ [][(loop_pc = "dead" /\ AutoStart(TRUE)) => (loop_pc' = "top" /\ running')]_vars

C36_RecoveryInvariants ==
  /\ [](loop_pc = "top" /\ recovery_mode => lane_lost_count >= lane_lost_threshold)
  /\ [](recovery_attempts <= recovery_max_attempts)
  /\ [][(~running /\ running') => ~recovery_mode']_vars

\* C37: when the IMU-guided smart_turn leaves its loop through the
\* target-reached test (not interrupted, no exception, the reached test
\* true), the measured yaw is within 2 degrees of the target angle, sign
\* included.
C37_ReachedMeansAtTarget ==
  [][\A yaw \in YawSamples :
       (/\ TurnCheck(yaw, FALSE)
        /\ ~TurnInterrupted
        /\ Abs(turn_target) - Abs(yaw) <= 2)
         => Abs(turn_target - yaw) <= 2]_vars

\* C38: every turn command issued by smart_turn, in the IMU-guided loop as
\* in the fallback, has a speed magnitude in [130, 255] on both wheels, for
\* any requested speed.
C38_TurnSpeedFloor ==
  ~Stopped => /\ Abs(left_speed) \in MinTurnSpeed..MaxPwm
              /\ Abs(right_speed) \in MinTurnSpeed..MaxPwm

\* C39: when one client of the shared camera's stream disconnects, only
\* that client's generator terminates: a generator leaves its loop only
\* through the disconnection of its own client, and the generators of the
\* other connected clients still find the streaming flag set.
C39_DisconnectIsolated ==
  [][\A c \in Clients :
       /\ (gen[c] = "run" /\ gen'[c] # "run") => gen'[c] = "closed"
       /\ ClientDisconnects(c)
            => \A d \in Clients \ {c} : gen[d] = "run" => streaming']_vars

\* C40: the auto loop steers toward the lane midline: in an iteration on a
\* valid reading whose error and PID correction have the same sign, a
\* midline right of the frame centre (error > 0) gives a commanded left
\* wheel speed >= the right one, and a midline left of centre the reverse.
C40_SteersTowardMidline ==
  [][(loop_pc = "frame" /\ loop_pc' = "top") =>
     \A e \in {x \in LaneErrors : Abs(x) <= MAX_ERROR_THRESHOLD},
        c \in Corrections, sz \in SignSizes :
       (e * c > 0 /\ LoopBody("none", sz, e, c))
         => IF e > 0 THEN left_speed' >= right_speed'
            ELSE left_speed' <= right_speed']_vars

====
